---- MODULE Spec2Model ----
(***************************************************************************)
(* A model of mbt-cli (src/mbt_cli/main.py): the command shell MbtCmd, its *)
(* per-command argument parsing (CmdArgParser, valid_int, replace_hex) and *)
(* the result formatter (_dump_results).                                   *)
(*                                                                         *)
(* A token is a sequence of one-character strings, an argument line is a   *)
(* sequence of tokens (the result of str.split()).  The Modbus client      *)
(* (pyModbusTCP) is the environment: each handler draws the client's       *)
(* outcome from the outcomes the library can produce.                      *)
(***************************************************************************)
EXTENDS Integers, Sequences, FiniteSets, TLC

VARIABLES
    mode,        \* "interactive" (cmdloop) or "oneshot" (-c/--cmd list)
    loop,        \* "running", "stopped" (left normally), "aborted" (main's except ValueError),
                 \* "crashed" (uncaught exception), "interrupted" (KeyboardInterrupt)
    inputs,      \* lines left: on stdin before end-of-input (interactive), in the --cmd list (oneshot)
    line,        \* the input line handed to onecmd() last: [cmd, args]
    host, port, unit_id, timeout, debug,            \* mb_client settings
    dump_hex, dump_32b, swap_bytes, swap_words,     \* MbtCmd display flags
    raised,      \* the exception raised inside the last handler's try block
    calls,       \* the transport operations called by the last command
    ret_list,    \* what the transport returned to the last command
    last_error,  \* mb_client.last_error after the last transport call
    out,         \* the lines printed by the last command
    hx_pc, hx_arg, hx_out   \* one pass of the loop body of _preprocess_args

vars == <<mode, loop, inputs, line, host, port, unit_id, timeout, debug,
          dump_hex, dump_32b, swap_bytes, swap_words,
          raised, calls, ret_list, last_error, out, hx_pc, hx_arg, hx_out>>

(***************************************************************************)
(* Bounds of the model.                                                    *)
(***************************************************************************)
MaxTokLen == 5      \* longest token handed to replace_hex (SpecHex)
MaxArgs == 3        \* most tokens on an argument line
MaxRet == 2         \* longest list the transport returns
MaxCmds == 2        \* most lines of one session (stdin, or the --cmd list)
MaxSetArgs == 2     \* most tokens on the argument line of a set command (SpecSet)

(***************************************************************************)
(* Characters and Python's integer conversions.                            *)
(***************************************************************************)
DecChars == <<"0", "1", "2", "3", "4", "5", "6", "7", "8", "9">>
HexLower == <<"0", "1", "2", "3", "4", "5", "6", "7", "8", "9", "a", "b", "c", "d", "e", "f">>
HexUpper == <<"0", "1", "2", "3", "4", "5", "6", "7", "8", "9", "A", "B", "C", "D", "E", "F">>

IsDecChar(c) == \E i \in 1..10 : DecChars[i] = c
IsHexChar(c) == \E i \in 1..16 : HexLower[i] = c \/ HexUpper[i] = c
HexCharVal(c) == (CHOOSE i \in 1..16 : HexLower[i] = c \/ HexUpper[i] = c) - 1

RECURSIVE NatToStr(_)
NatToStr(n) ==
    IF n < 10 THEN <<DecChars[n + 1]>>
    ELSE Append(NatToStr(n \div 10), DecChars[(n % 10) + 1])

\* str(n) of a Python int
IntToStr(n) == IF n < 0 THEN <<"-">> \o NatToStr(0 - n) ELSE NatToStr(n)

RECURSIVE DigitsValue(_, _, _)
DigitsValue(s, base, acc) ==
    IF s = <<>> THEN acc
    ELSE IF Head(s) = "_" THEN DigitsValue(Tail(s), base, acc)
    ELSE DigitsValue(Tail(s), base, acc * base + HexCharVal(Head(s)))

\* the hex-literal pattern ^\-?0[xX][0-9a-fA-F]+$ of replace_hex
MatchesHexLiteral(tok) ==
    LET body == IF tok # <<>> /\ Head(tok) = "-" THEN Tail(tok) ELSE tok
    IN  /\ Len(body) >= 3
        /\ body[1] = "0"
        /\ body[2] \in {"x", "X"}
        /\ \A i \in 3..Len(body) : IsHexChar(body[i])

\* int(s, 16) for a string the hex-literal pattern matched
IntBase16(tok) ==
    IF Head(tok) = "-" THEN 0 - DigitsValue(SubSeq(tok, 4, Len(tok)), 16, 0)
    ELSE DigitsValue(SubSeq(tok, 3, Len(tok)), 16, 0)

\* replace_hex without the sign of the literal
replace_hex_nosign(tok) ==
    IF MatchesHexLiteral(tok)
    THEN NatToStr(DigitsValue(SubSeq(tok, IF Head(tok) = "-" THEN 4 ELSE 3, Len(tok)), 16, 0))
    ELSE tok

replace_hex(tok) ==
    IF MatchesHexLiteral(tok) THEN IntToStr(IntBase16(tok)) ELSE tok

\* int(x) of a string: optional sign, decimal digits, single underscores
\* between digits; anything else raises ValueError (ok = FALSE)
IsDecLiteral(tok) ==
    LET body == IF tok # <<>> /\ Head(tok) \in {"-", "+"} THEN Tail(tok) ELSE tok
    IN  /\ body # <<>>
        /\ \A i \in 1..Len(body) : IsDecChar(body[i]) \/ body[i] = "_"
        /\ IsDecChar(body[1]) /\ IsDecChar(body[Len(body)])
        /\ \A i \in 1..(Len(body) - 1) : ~(body[i] = "_" /\ body[i + 1] = "_")

py_int(tok) ==
    IF IsDecLiteral(tok)
    THEN [ok |-> TRUE,
          value |-> IF Head(tok) = "-" THEN 0 - DigitsValue(Tail(tok), 10, 0)
                    ELSE IF Head(tok) = "+" THEN DigitsValue(Tail(tok), 10, 0)
                    ELSE DigitsValue(tok, 10, 0)]
    ELSE [ok |-> FALSE, value |-> 0]

(***************************************************************************)
(* Values a parsed argument can hold.  argparse hands out an int (type     *)
(* valid_int), a float (type float; finite floats are kept as the integer  *)
(* they hold), a str, or the empty list [] (a required positional whose    *)
(* only string was a "--" that _get_values stripped).                      *)
(***************************************************************************)
IntVal(n) == [t |-> "int", n |-> n]
FloatVal(n) == [t |-> "float", n |-> n]
InfVal == [t |-> "inf", n |-> 0]
NanVal == [t |-> "nan", n |-> 0]
StrVal(tok) == [t |-> "str", n |-> 0, s |-> tok]
ListVal == [t |-> "list", n |-> 0]

NoError == [kind |-> "none", msg |-> "", dest |-> "", min |-> 0, max |-> 0]
ArgumentError(dest, msg, lo, hi) ==
    [kind |-> "ArgumentError", msg |-> msg, dest |-> dest, min |-> lo, max |-> hi]
ValueError(msg) == [kind |-> "ValueError", msg |-> msg, dest |-> "", min |-> 0, max |-> 0]

\* valid_int with the range test min < x < max
valid_int_exclusive(min, max, x) ==
    LET r == py_int(x)
    IN  IF ~r.ok THEN [err |-> ArgumentError("", "not an int", 0, 0), value |-> IntVal(0)]
        ELSE IF ~(min < r.value /\ r.value < max)
        THEN [err |-> ArgumentError("", "not in valid range", min, max), value |-> IntVal(0)]
        ELSE [err |-> NoError, value |-> IntVal(r.value)]

\* valid_int(min, max)(x): the converted value, or the ArgumentTypeError raised
valid_int(min, max, x) ==
    LET r == py_int(x)
    IN  IF ~r.ok THEN [err |-> ArgumentError("", "not an int", 0, 0), value |-> IntVal(0)]
        ELSE IF ~(min <= r.value /\ r.value <= max)
        THEN [err |-> ArgumentError("", "not in valid range", min, max), value |-> IntVal(0)]
        ELSE [err |-> NoError, value |-> IntVal(r.value)]

\* str.lower() and float(x) for the strings of the model's alphabets (the
\* capitals I, N, F, A, O are the ones they hold): float takes a decimal
\* integer literal, or inf / nan in any case with an optional sign
LowerChar(c) == IF c = "I" THEN "i" ELSE IF c = "N" THEN "n" ELSE IF c = "F" THEN "f"
                ELSE IF c = "A" THEN "a" ELSE IF c = "O" THEN "o" ELSE c
LowerTok(tok) == [i \in 1..Len(tok) |-> LowerChar(tok[i])]
Unsigned(tok) == IF tok # <<>> /\ Head(tok) \in {"-", "+"} THEN Tail(tok) ELSE tok

py_float(tok) ==
    IF IsDecLiteral(tok) THEN [ok |-> TRUE, value |-> FloatVal(py_int(tok).value)]
    ELSE IF LowerTok(Unsigned(tok)) = <<"i", "n", "f">> THEN [ok |-> TRUE, value |-> InfVal]
    ELSE IF LowerTok(Unsigned(tok)) = <<"n", "a", "n">> THEN [ok |-> TRUE, value |-> NanVal]
    ELSE [ok |-> FALSE, value |-> FloatVal(0)]

(***************************************************************************)
(* CmdArgParser: argparse.ArgumentParser with positional arguments only.   *)
(* A positional is [dest, nargs, type, min, max, default] with nargs "?"   *)
(* (optional) or "1" (required, argparse's nargs=None).                    *)
(***************************************************************************)
Positional(dest, nargs, type, lo, hi, default) ==
    [dest |-> dest, nargs |-> nargs, type |-> type, min |-> lo, max |-> hi, default |-> default]

DashDash == <<"-", "-">>

\* argparse's _negative_number_matcher: ^-\d+$|^-\d*\.\d+$
NegativeNumberLike(tok) ==
    /\ Len(tok) >= 2 /\ tok[1] = "-"
    /\ \/ \A i \in 2..Len(tok) : IsDecChar(tok[i])
       \/ \E d \in 2..(Len(tok) - 1) :
            /\ tok[d] = "."
            /\ \A i \in 2..Len(tok) : i # d => IsDecChar(tok[i])

\* _parse_optional of a parser that has no option strings: TRUE when the
\* string is taken for an (unknown) option
_parse_optional(tok) ==
    /\ tok # <<>>
    /\ tok[1] = "-"
    /\ Len(tok) > 1
    /\ ~NegativeNumberLike(tok)

\* the arg_strings_pattern of _parse_known_args: "-" for the first "--",
\* "A" for everything after it, else "O" (option) or "A" (argument)
ArgStringsPattern(args) ==
    [i \in 1..Len(args) |->
        IF \E j \in 1..(i - 1) : args[j] = DashDash THEN "A"
        ELSE IF args[i] = DashDash THEN "-"
        ELSE IF _parse_optional(args[i]) THEN "O" ELSE "A"]

RECURSIVE LeadingDashes(_)
LeadingDashes(pat) ==
    IF pat # <<>> /\ Head(pat) = "-" THEN 1 + LeadingDashes(Tail(pat)) ELSE 0

Drop(s, n) == SubSeq(s, n + 1, Len(s))

\* the length matched by one positional's nargs pattern, (-*A-*) or
\* (-*A?-*), at the start of pat; -1 when it does not match
NargsMatch(nargs, pat) ==
    LET d1 == LeadingDashes(pat)
        rest == Drop(pat, d1)
        hasA == rest # <<>> /\ Head(rest) = "A"
    IN  IF hasA THEN d1 + 1 + LeadingDashes(Tail(rest))
        ELSE IF nargs = "?" THEN d1
        ELSE -1

\* re.match of the concatenated patterns of actions: the list of group
\* lengths, or <<>> when some group fails (every group of a parser of this
\* program is optional or every group is required, so the greedy match is
\* the match the regex engine returns)
RECURSIVE MatchGroups(_, _)
MatchGroups(actions, pat) ==
    IF actions = <<>> THEN <<>>
    ELSE LET n == NargsMatch(Head(actions).nargs, pat)
         IN  IF n < 0 THEN <<-1>>
             ELSE <<n>> \o MatchGroups(Tail(actions), Drop(pat, n))

RECURSIVE _match_arguments_partial(_, _)
_match_arguments_partial(actions, pat) ==
    IF actions = <<>> THEN <<>>
    ELSE LET g == MatchGroups(actions, pat)
         IN  IF \A i \in 1..Len(g) : g[i] >= 0 THEN g
             ELSE _match_arguments_partial(SubSeq(actions, 1, Len(actions) - 1), pat)

RemoveFirstDashDash(strs) ==
    IF \E i \in 1..Len(strs) : strs[i] = DashDash
    THEN LET k == CHOOSE i \in 1..Len(strs) :
                    strs[i] = DashDash /\ \A j \in 1..(i - 1) : strs[j] # DashDash
         IN  SubSeq(strs, 1, k - 1) \o Drop(strs, k)
    ELSE strs

\* _get_value: the action's type function applied to one string
_get_value(action, tok) ==
    IF action.type = "valid_int"
    THEN LET r == valid_int(action.min, action.max, tok)
         IN  [err |-> IF r.err.kind = "none" THEN NoError
                      ELSE ArgumentError(action.dest, r.err.msg, r.err.min, r.err.max),
              value |-> r.value]
    ELSE IF action.type = "float"
    THEN LET r == py_float(tok)
         IN  [err |-> IF r.ok THEN NoError
                      ELSE ArgumentError(action.dest, "invalid float value", 0, 0),
              value |-> r.value]
    ELSE [err |-> NoError, value |-> StrVal(tok)]

\* _get_values: strip the first "--", then default / one value / a list
_get_values(action, strs) ==
    LET a == RemoveFirstDashDash(strs)
    IN  IF a = <<>> /\ action.nargs = "?" THEN [err |-> NoError, value |-> action.default]
        ELSE IF Len(a) = 1 THEN _get_value(action, a[1])
        ELSE [err |-> NoError, value |-> ListVal]

(***************************************************************************)
(* _parse_known_args.  A parse state is [i, k, vals, extras, err]: the     *)
(* start index (1-based), the number of positionals already consumed, the  *)
(* namespace (one value per positional, in order), the strings left over,  *)
(* and the ArgumentError raised (parsing stops at the first one).          *)
(***************************************************************************)
\* take_action of one positional: n strings consumed, r the outcome of
\* _get_values on them
StoreValue(st, n, r) ==
    [st EXCEPT !.i = st.i + n,
               !.k = st.k + 1,
               !.vals = IF r.err.kind = "none" THEN [st.vals EXCEPT ![st.k + 1] = r.value]
                        ELSE st.vals,
               !.err = r.err]

RECURSIVE TakeActions(_, _, _, _, _)
TakeActions(schema, args, counts, j, st) ==
    IF j > Len(counts) \/ st.err.kind # "none" THEN st
    ELSE TakeActions(schema, args, counts, j + 1,
             StoreValue(st, counts[j],
                 _get_values(schema[st.k + 1], SubSeq(args, st.i, st.i + counts[j] - 1))))

consume_positionals(schema, args, st) ==
    TakeActions(schema, args,
        _match_arguments_partial(Drop(schema, st.k), Drop(ArgStringsPattern(args), st.i - 1)),
        1, st)

\* option_string_indices
OptionIndices(args) ==
    {i \in 1..Len(args) : _parse_optional(args[i]) /\ \A j \in 1..i : args[j] # DashDash}

SetMax(S) == CHOOSE x \in S : \A y \in S : y <= x
SetMin(S) == CHOOSE x \in S : \A y \in S : x <= y

\* consume_optional of a string that is no option of the parser, after the
\* strings before it that no positional took: all of them go to extras
consume_optional(args, next, st) ==
    [st EXCEPT !.extras = st.extras \o SubSeq(args, st.i, next), !.i = next + 1]

\* the while loop of _parse_known_args: positionals up to the next option
\* string (s1 is the state after consume_positionals), then the option string
RECURSIVE ConsumeLoop(_, _, _, _)
LoopBody(schema, args, opts, st, next, s1) ==
    IF s1.err.kind # "none" THEN s1
    ELSE IF s1.i > st.i THEN ConsumeLoop(schema, args, opts, s1)
    ELSE ConsumeLoop(schema, args, opts, consume_optional(args, next, s1))

ConsumeLoop(schema, args, opts, st) ==
    IF st.err.kind # "none" \/ opts = {} \/ st.i > SetMax(opts) THEN st
    ELSE LoopBody(schema, args, opts, st, SetMin({o \in opts : o >= st.i}),
             IF st.i # SetMin({o \in opts : o >= st.i})
             THEN consume_positionals(schema, args, st) ELSE st)

\* after the loop: the remaining positionals, the remaining strings go to
\* extras, and the required positionals that were not seen are an error
RequiredActions(schema, args, s2) ==
    IF s2.err.kind # "none" THEN s2
    ELSE IF \E j \in 1..Len(schema) : schema[j].nargs = "1" /\ j > s2.k
    THEN [s2 EXCEPT !.extras = s2.extras \o Drop(args, s2.i - 1),
                    !.err = ArgumentError("", "the following arguments are required", 0, 0)]
    ELSE [s2 EXCEPT !.extras = s2.extras \o Drop(args, s2.i - 1)]

StopIndex(schema, args, s1) ==
    IF s1.err.kind # "none" THEN s1 ELSE consume_positionals(schema, args, s1)

_parse_known_args(schema, args) ==
    RequiredActions(schema, args,
        StopIndex(schema, args,
            ConsumeLoop(schema, args, OptionIndices(args),
                [i |-> 1, k |-> 0,
                 vals |-> [j \in 1..Len(schema) |-> schema[j].default],
                 extras |-> <<>>, err |-> NoError])))

\* error() on leftover strings; CmdArgParser.error raises ArgumentError
\* instead of exiting
Namespace(st) ==
    IF st.err.kind # "none" THEN [err |-> st.err, vals |-> st.vals]
    ELSE IF st.extras # <<>>
    THEN [err |-> ArgumentError("", "unrecognized arguments", 0, 0), vals |-> st.vals]
    ELSE [err |-> NoError, vals |-> st.vals]

\* parse_args: _parse_known_args, then error() when strings are left over
parse_args(schema, args) == Namespace(_parse_known_args(schema, args))

\* CmdArgParser._preprocess_args: replace_hex on every string of the line
_preprocess_args(args) == [i \in 1..Len(args) |-> replace_hex(args[i])]

\* CmdArgParser.parse_cmd_args
parse_cmd_args(schema, args) == parse_args(schema, _preprocess_args(args))

(***************************************************************************)
(* Register arithmetic.  A 32-bit value (hi << 16) + lo is kept as the     *)
(* pair of its 16-bit halves.                                              *)
(***************************************************************************)
\* swap_bytes that swaps nothing
SwapBytes_identity(x) == x

\* swap_bytes(x): x.to_bytes(2, 'little') read back as big-endian
SwapBytes(x) ==
    LET little == <<x % 256, (x \div 256) % 256>>
    IN  little[1] * 256 + little[2]

\* pyModbusTCP.utils.get_2comp(val, 16)
get_2comp(v) == IF v >= 32768 THEN v - 65536 ELSE v

Word32(hi, lo) == [hi |-> hi, lo |-> lo]

\* pyModbusTCP.utils.get_2comp(val, 32)
get_2comp32(w) ==
    IF w.hi >= 32768 THEN (w.hi - 65536) * 65536 + w.lo ELSE w.hi * 65536 + w.lo

(***************************************************************************)
(* Printed lines and their fields.                                         *)
(***************************************************************************)
NA == [txt |-> "n/a"]
Text(s) == [txt |-> s]
Num(sign, pfix, fmt, mag) == [txt |-> "num", sign |-> sign, pfix |-> pfix, fmt |-> fmt, mag |-> mag]
Num32(pfix, fmt, w) == [txt |-> "u32", pfix |-> pfix, fmt |-> fmt, w |-> w]
SNum32(sign, pfix, fmt, i32) == [txt |-> "i32", sign |-> sign, pfix |-> pfix, fmt |-> fmt, i32 |-> i32]
F32(w) == [txt |-> "f32", bits |-> w]
Bytes(b1, b2) == [txt |-> "bytes", b1 |-> b1, b2 |-> b2]

Head16 == [kind |-> "head", cols |-> <<"#", "address", "raw", "u16", "i16", "ascii">>]
Head32 == [kind |-> "head", cols |-> <<"#", "address", "raw", "u32", "i32", "f32">>]
HeadBool == [kind |-> "head", cols |-> <<"#", "address", "bool">>]
Row(idx, addr, cols) == [kind |-> "row", idx |-> idx, addr |-> addr, cols |-> cols]
ErrLine(e) == [kind |-> "error", err |-> e]
Status(what, value) == [kind |-> "status", what |-> what, value |-> value]
Message(text) == [kind |-> "message", text |-> text]

NoneRet == [none |-> TRUE, list |-> <<>>]
ListRet(l) == [none |-> FALSE, list |-> l]
Truthy(r) == ~r.none /\ r.list # <<>>

Flags == [dump_hex |-> dump_hex, dump_32b |-> dump_32b,
          swap_bytes |-> swap_bytes, swap_words |-> swap_words]
FlagSets == [dump_hex : BOOLEAN, dump_32b : BOOLEAN, swap_bytes : BOOLEAN, swap_words : BOOLEAN]

\* one data row of _dump_bool_results, reg_idx counted from 0
BoolRow(list, address, reg_idx) ==
    Row(reg_idx, address + reg_idx,
        <<IF reg_idx < Len(list)
          THEN Text(IF list[reg_idx + 1] THEN "true" ELSE "false")
          ELSE NA>>)

_dump_bool_results(list, address, number) ==
    <<HeadBool>> \o [i \in 1..number |-> BoolRow(list, address, i - 1)]

\* f'{u16_bytes}': the bytes repr, or the text None when the register is absent
ascii_as_str(present, u16) ==
    IF present THEN Bytes((u16 \div 256) % 256, u16 % 256) ELSE Text("None")

\* the u32 of a row with swap_words ignored
Combine32_noswap(word_0, word_1, f) == Word32(word_0, word_1)

\* u32 of one row: (word_1 << 16) + word_0 under swap_words, else (word_0 << 16) + word_1
Combine32(word_0, word_1, f) ==
    IF f.swap_words THEN Word32(word_1, word_0) ELSE Word32(word_0, word_1)

\* the 16-bit value the derived columns are computed from
Reg16(raw, f) == IF f.swap_bytes THEN SwapBytes(raw) ELSE raw

\* one data row of _dump_word_results, reg_idx counted from 0
WordRow(list, address, reg_idx, f) ==
    LET present == reg_idx < Len(list)
        raw_register == IF present THEN list[reg_idx + 1] ELSE 0
        u16 == Reg16(raw_register, f)
        i16 == get_2comp(u16)
        present32 == reg_idx + 1 < Len(list)
        u32 == IF present32
               THEN Combine32(Reg16(list[reg_idx + 1], f), Reg16(list[reg_idx + 2], f), f)
               ELSE Word32(0, 0)
        i32 == get_2comp32(u32)
        pfix == IF f.dump_hex THEN "0x" ELSE ""
        fmt16 == IF f.dump_hex THEN "04x" ELSE ""
        fmt32 == IF f.dump_hex THEN "08x" ELSE ""
        raw_as_str == IF present THEN Num("", "0x", "04x", raw_register) ELSE NA
    IN  Row(reg_idx, address + reg_idx,
            IF f.dump_32b
            THEN <<raw_as_str,
                   IF present32 THEN Num32(pfix, fmt32, u32) ELSE NA,
                   IF present32 THEN SNum32(IF i32 < 0 THEN "-" ELSE "", pfix, fmt32, i32) ELSE NA,
                   IF present32 THEN F32(u32) ELSE NA>>
            ELSE <<raw_as_str,
                   IF present THEN Num("", pfix, fmt16, u16) ELSE NA,
                   IF present
                   THEN Num(IF i16 < 0 THEN "-" ELSE "", pfix, fmt16, IF i16 < 0 THEN 0 - i16 ELSE i16)
                   ELSE NA,
                   ascii_as_str(present, u16)>>)

\* _dump_word_results over the result padded with one zero register, so
\* that the last register read has a following one to combine with
_dump_word_results_padded(list, address, number, f) ==
    <<IF f.dump_32b THEN Head32 ELSE Head16>>
        \o [i \in 1..number |-> WordRow(list \o <<0>>, address, i - 1, f)]

_dump_word_results(list, address, number, f) ==
    <<IF f.dump_32b THEN Head32 ELSE Head16>>
        \o [i \in 1..number |-> WordRow(list, address, i - 1, f)]

LastErrorLine(err) == [kind |-> "last_error", error |-> err, except |-> err = "MB_EXCEPT_ERR"]

\* _dump_results without the test of mb_client.debug
_dump_results_always(ret, address, number, as_bool, f, dbg, err) ==
    IF Truthy(ret)
    THEN IF as_bool THEN _dump_bool_results(ret.list, address, number)
         ELSE _dump_word_results(ret.list, address, number, f)
    ELSE <<LastErrorLine(err)>>

\* _dump_results: the table, or the client's last error unless debug is on
_dump_results(ret, address, number, as_bool, f, dbg, err) ==
    IF Truthy(ret)
    THEN IF as_bool THEN _dump_bool_results(ret.list, address, number)
         ELSE _dump_word_results(ret.list, address, number, f)
    ELSE IF ~dbg THEN <<LastErrorLine(err)>>
    ELSE <<>>

(***************************************************************************)
(* The Modbus client, as the handlers see it.                              *)
(***************************************************************************)
TransportErrors == {"MB_TIMEOUT_ERR", "MB_EXCEPT_ERR"}
Request(op, address, arg) == [op |-> op, address |-> address, arg |-> arg]

\* what a read of the client can do: raise ValueError or return None past
\* the end of the address space (the library version decides which), else
\* return a list, or None with last_error set
ReadOutcomes(Rets, address, number) ==
    IF address + number > 65536
    THEN {[raises |-> TRUE, ret |-> NoneRet, last_error |-> last_error]}
            \cup {[raises |-> FALSE, ret |-> NoneRet, last_error |-> e] : e \in TransportErrors}
    ELSE {[raises |-> FALSE, ret |-> ListRet(l), last_error |-> "MB_NO_ERR"] : l \in Rets}
            \cup {[raises |-> FALSE, ret |-> NoneRet, last_error |-> e] : e \in TransportErrors}

\* what a write of the client can do: True, or None with last_error set
WriteOutcomes ==
    {[ok |-> TRUE, last_error |-> "MB_NO_ERR"]}
        \cup {[ok |-> FALSE, last_error |-> e] : e \in TransportErrors}

(***************************************************************************)
(* Command handlers.  A handler's result is [out, calls, ret, last_error,  *)
(* raised, stop]: raised is the exception its body raised (NoError when    *)
(* none), stop is the value the handler returns to the loop.               *)
(***************************************************************************)
NoneVal == [t |-> "none", n |-> 0]

ReadSchema(maxn) ==
    <<Positional("address", "?", "valid_int", 0, 65535, IntVal(0)),
      Positional("number", "?", "valid_int", 1, maxn, IntVal(1))>>
WriteSchema(maxv) ==
    <<Positional("address", "1", "valid_int", 0, 65535, NoneVal),
      Positional("value", "1", "valid_int", 0, maxv, NoneVal)>>
ValueSchema(type, lo, hi, default) ==
    <<Positional("value", "?", type, lo, hi, default)>>

Result(o, c, r, le) ==
    [out |-> o, calls |-> c, ret |-> r, last_error |-> le, raised |-> NoError, stop |-> FALSE]
Raises(e, c, le) ==
    [out |-> <<>>, calls |-> c, ret |-> NoneRet, last_error |-> le, raised |-> e, stop |-> FALSE]
Exception(kind) == [kind |-> kind, msg |-> "", dest |-> "", min |-> 0, max |-> 0]

\* except ValueError alone
HandlerCatches_ValueErrorOnly(e) == e.kind = "ValueError"

\* except (ArgumentError, ValueError) as e: print(e)
HandlerCatches(e) == e.kind \in {"ArgumentError", "ValueError"}

CanRun == loop = "running" /\ inputs > 0

\* onecmd(line) returns res: what the loop (cmdloop, or main's for loop over
\* the --cmd list) and main's except clauses make of it
Finish(cmdname, args, res, has_try) ==
    LET failed == res.raised.kind # "none"
        caught == failed /\ has_try /\ HandlerCatches(res.raised)
    IN  /\ line' = [cmd |-> cmdname, args |-> args]
        /\ raised' = res.raised
        /\ calls' = res.calls
        /\ ret_list' = res.ret
        /\ last_error' = res.last_error
        /\ out' = IF ~failed THEN res.out
                  ELSE IF caught THEN <<ErrLine(res.raised)>>
                  ELSE IF res.raised.kind = "ValueError" THEN <<Message("error occur")>>
                  ELSE <<>>
        /\ inputs' = IF inputs > 0 THEN inputs - 1 ELSE 0
        /\ loop' = IF failed /\ ~caught
                   THEN IF res.raised.kind = "ValueError" THEN "aborted" ELSE "crashed"
                   ELSE IF mode = "interactive"
                   THEN IF res.stop THEN "stopped" ELSE "running"
                   ELSE IF inputs = 1 THEN "stopped" ELSE "running"

\* a read that asks for one register more in 32-bit mode
ReadRequest_extra32(op, address, number, f) ==
    <<Request(op, address, IntVal(IF f.dump_32b THEN number + 1 ELSE number))>>

\* self.mb_client.read_xxx(cmd_args.address, cmd_args.number)
ReadRequest(op, address, number, f) == <<Request(op, address, IntVal(number))>>

\* do_read_coils, do_read_discrete_inputs, do_read_holding_registers,
\* do_read_input_registers
ReadCommand(op, maxn, as_bool, Args, Rets) ==
    /\ CanRun
    /\ \E args \in Args :
      \E p \in {parse_cmd_args(ReadSchema(maxn), args)} :
        IF p.err.kind # "none"
        THEN Finish(op, args, Raises(p.err, <<>>, last_error), TRUE)
        ELSE \E address \in {p.vals[1].n}, number \in {p.vals[2].n} :
             \E oc \in ReadOutcomes(Rets, address, number) :
                Finish(op, args,
                    IF oc.raises
                    THEN Raises(ValueError("read after end of modbus address space"),
                                ReadRequest(op, address, number, Flags), oc.last_error)
                    ELSE Result(_dump_results(oc.ret, address, number, as_bool, Flags,
                                              debug, oc.last_error),
                                ReadRequest(op, address, number, Flags), oc.ret, oc.last_error),
                    TRUE)
    /\ UNCHANGED <<mode, host, port, unit_id, timeout, debug,
                   dump_hex, dump_32b, swap_bytes, swap_words, hx_pc, hx_arg, hx_out>>

do_read_coils(Args, Rets) == ReadCommand("read_coils", 2000, TRUE, Args, Rets)
do_read_discrete_inputs(Args, Rets) == ReadCommand("read_discrete_inputs", 2000, TRUE, Args, Rets)
do_read_holding_registers(Args, Rets) == ReadCommand("read_holding_registers", 125, FALSE, Args, Rets)
do_read_input_registers(Args, Rets) == ReadCommand("read_input_registers", 125, FALSE, Args, Rets)

\* do_write_single_coil; the client takes bool(value), whatever value is
do_write_single_coil(Args) ==
    /\ CanRun
    /\ \E args \in Args :
      \E p \in {parse_cmd_args(WriteSchema(1), args)} :
        IF p.err.kind # "none"
        THEN Finish("write_single_coil", args, Raises(p.err, <<>>, last_error), TRUE)
        ELSE \E oc \in WriteOutcomes :
                Finish("write_single_coil", args,
                    Result(<<Message(IF oc.ok THEN "coil write ok" ELSE "unable to set coil")>>,
                           <<Request("write_single_coil", p.vals[1].n, p.vals[2])>>,
                           NoneRet, oc.last_error),
                    TRUE)
    /\ UNCHANGED <<mode, host, port, unit_id, timeout, debug,
                   dump_hex, dump_32b, swap_bytes, swap_words, hx_pc, hx_arg, hx_out>>

\* raw_value of do_write_single_register (an int here)
raw_value(value, f) == IF f.swap_bytes THEN SwapBytes(value) ELSE value

\* the write_single_register call of do_write_single_register: none when
\* swap_bytes() raises first (value = [] has no to_bytes)
WriteRegisterRequest(address, value, f) ==
    IF value.t = "int"
    THEN <<Request("write_single_register", address, IntVal(raw_value(value.n, f)))>>
    ELSE IF f.swap_bytes THEN <<>>
    ELSE <<Request("write_single_register", address, value)>>

\* do_write_single_register; with value = [] swap_bytes() raises
\* AttributeError, and without the swap the client's int(reg_value) raises
\* TypeError
do_write_single_register(Args) ==
    /\ CanRun
    /\ \E args \in Args :
      \E p \in {parse_cmd_args(WriteSchema(65535), args)} :
        IF p.err.kind # "none"
        THEN Finish("write_single_register", args, Raises(p.err, <<>>, last_error), TRUE)
        ELSE IF p.vals[2].t # "int"
        THEN Finish("write_single_register", args,
                    Raises(Exception(IF swap_bytes THEN "AttributeError" ELSE "TypeError"),
                           WriteRegisterRequest(p.vals[1].n, p.vals[2], Flags), last_error),
                    TRUE)
        ELSE \E oc \in WriteOutcomes :
                Finish("write_single_register", args,
                    Result(<<Message(IF oc.ok THEN "register write ok"
                                     ELSE "unable to set register")>>,
                           WriteRegisterRequest(p.vals[1].n, p.vals[2], Flags),
                           NoneRet, oc.last_error),
                    TRUE)
    /\ UNCHANGED <<mode, host, port, unit_id, timeout, debug,
                   dump_hex, dump_32b, swap_bytes, swap_words, hx_pc, hx_arg, hx_out>>

(***************************************************************************)
(* Settings.                                                               *)
(***************************************************************************)
ConfigVars == <<host, port, unit_id, timeout, debug>>
DisplayVars == <<dump_hex, dump_32b, swap_bytes, swap_words>>

\* arg.strip().lower() of an on/off command: "on", "off", "" (no argument)
\* or anything else
OnOff(args) ==
    IF args = <<>> THEN ""
    ELSE IF Len(args) = 1 /\ LowerTok(args[1]) = <<"o", "n">> THEN "on"
    ELSE IF Len(args) = 1 /\ LowerTok(args[1]) = <<"o", "f", "f">> THEN "off"
    ELSE "other"

\* the flag assigned as self.flag = (arg == 'on') whenever an argument is
\* given
FlagValue_on_or_not(args, current) ==
    IF OnOff(args) = "" THEN current ELSE OnOff(args) = "on"

\* the flag after a do_debug / do_dump_hex / do_dump_32b / do_swap_bytes /
\* do_swap_words
FlagValue(args, current) ==
    IF OnOff(args) = "on" THEN TRUE ELSE IF OnOff(args) = "off" THEN FALSE ELSE current

FlagOutput(what, args, current) ==
    (IF OnOff(args) = "other" THEN <<Message("unable to set flag")>> ELSE <<>>)
        \o <<Status(what, IF FlagValue(args, current) THEN "on" ELSE "off")>>

FlagCommand(cmdname, Args, current) ==
    /\ CanRun
    /\ \E args \in Args :
        Finish(cmdname, args, Result(FlagOutput(cmdname, args, current), <<>>, NoneRet, last_error),
               FALSE)
    /\ UNCHANGED <<mode, hx_pc, hx_arg, hx_out>>

do_debug(Args) ==
    /\ FlagCommand("debug", Args, debug)
    /\ debug' = FlagValue(line'.args, debug)
    /\ UNCHANGED <<host, port, unit_id, timeout, dump_hex, dump_32b, swap_bytes, swap_words>>

do_dump_hex(Args) ==
    /\ FlagCommand("dump_hex", Args, dump_hex)
    /\ dump_hex' = FlagValue(line'.args, dump_hex)
    /\ UNCHANGED <<host, port, unit_id, timeout, debug, dump_32b, swap_bytes, swap_words>>

\* do_dump_32b assigning self.dump_hex, as the handler it was copied from
do_dump_32b_sets_dump_hex(Args) ==
    /\ FlagCommand("dump_32b", Args, dump_32b)
    /\ dump_hex' = FlagValue(line'.args, dump_32b)
    /\ UNCHANGED <<host, port, unit_id, timeout, debug, dump_32b, swap_bytes, swap_words>>

do_dump_32b(Args) ==
    /\ FlagCommand("dump_32b", Args, dump_32b)
    /\ dump_32b' = FlagValue(line'.args, dump_32b)
    /\ UNCHANGED <<host, port, unit_id, timeout, debug, dump_hex, swap_bytes, swap_words>>

do_swap_bytes(Args) ==
    /\ FlagCommand("swap_bytes", Args, swap_bytes)
    /\ swap_bytes' = FlagValue(line'.args, swap_bytes)
    /\ UNCHANGED <<host, port, unit_id, timeout, debug, dump_hex, dump_32b, swap_words>>

do_swap_words(Args) ==
    /\ FlagCommand("swap_words", Args, swap_words)
    /\ swap_words' = FlagValue(line'.args, swap_words)
    /\ UNCHANGED <<host, port, unit_id, timeout, debug, dump_hex, dump_32b, swap_bytes>>

IsAlnum(c) ==
    \/ IsDecChar(c)
    \/ c \in {"a", "b", "c", "d", "e", "f", "g", "h", "i", "j", "k", "l", "m", "n", "o", "p", "q",
              "r", "s", "t", "u", "v", "w", "x", "y", "z"}
    \/ c \in {"A", "B", "C", "D", "E", "F", "G", "H", "I", "J", "K", "L", "M", "N", "O", "P", "Q",
              "R", "S", "T", "U", "V", "W", "X", "Y", "Z"}

\* the client's host setter takes an address or a host name: letters,
\* digits, "-" and "." between them; anything else raises ValueError
ValidHost(tok) ==
    /\ tok # <<>>
    /\ \A i \in 1..Len(tok) : IsAlnum(tok[i]) \/ tok[i] \in {"-", "."}
    /\ IsAlnum(tok[1]) /\ IsAlnum(tok[Len(tok)])

\* the client's timeout setter: 0 < timeout < 3600, else ValueError
ValidTimeout(v) == v.t = "float" /\ 0 < v.n /\ v.n < 3600

\* do_host, do_port, do_timeout, do_unit_id: p is the parse of the line,
\* accepted says whether the client's setter takes the parsed value
SetterResult(what, p, accepted) ==
    IF p.err.kind # "none" THEN Raises(p.err, <<>>, last_error)
    ELSE IF ~accepted THEN Raises(ValueError("value error"), <<>>, last_error)
    ELSE Result(<<Status(what, p.vals[1])>>, <<>>, NoneRet, last_error)

\* the setting after the command: assigned only when parsing and the setter
\* both succeed
SetterValue(p, accepted, current) ==
    IF p.err.kind = "none" /\ accepted THEN p.vals[1] ELSE current

do_host(Args) ==
    /\ CanRun
    /\ \E args \in Args :
      \E p \in {parse_cmd_args(ValueSchema("str", 0, 0, StrVal(host)), args)} :
      \E accepted \in {p.err.kind = "none" /\ ValidHost(p.vals[1].s)} :
        /\ Finish("host", args, SetterResult("host", p, accepted), TRUE)
        /\ host' = SetterValue(p, accepted, StrVal(host)).s
    /\ UNCHANGED <<mode, port, unit_id, timeout, debug,
                   dump_hex, dump_32b, swap_bytes, swap_words, hx_pc, hx_arg, hx_out>>

do_port(Args) ==
    /\ CanRun
    /\ \E args \in Args :
      \E p \in {parse_cmd_args(ValueSchema("valid_int", 1, 65535, IntVal(port)), args)} :
        /\ Finish("port", args, SetterResult("port", p, TRUE), TRUE)
        /\ port' = SetterValue(p, TRUE, IntVal(port)).n
    /\ UNCHANGED <<mode, host, unit_id, timeout, debug,
                   dump_hex, dump_32b, swap_bytes, swap_words, hx_pc, hx_arg, hx_out>>

do_timeout(Args) ==
    /\ CanRun
    /\ \E args \in Args :
      \E p \in {parse_cmd_args(ValueSchema("float", 0, 0, FloatVal(timeout)), args)} :
      \E accepted \in {p.err.kind = "none" /\ ValidTimeout(p.vals[1])} :
        /\ Finish("timeout", args, SetterResult("timeout", p, accepted), TRUE)
        /\ timeout' = SetterValue(p, accepted, FloatVal(timeout)).n
    /\ UNCHANGED <<mode, host, port, unit_id, debug,
                   dump_hex, dump_32b, swap_bytes, swap_words, hx_pc, hx_arg, hx_out>>

do_unit_id(Args) ==
    /\ CanRun
    /\ \E args \in Args :
      \E p \in {parse_cmd_args(ValueSchema("valid_int", 1, 255, IntVal(unit_id)), args)} :
        /\ Finish("unit_id", args, SetterResult("unit_id", p, TRUE), TRUE)
        /\ unit_id' = SetterValue(p, TRUE, IntVal(unit_id)).n
    /\ UNCHANGED <<mode, host, port, timeout, debug,
                   dump_hex, dump_32b, swap_bytes, swap_words, hx_pc, hx_arg, hx_out>>

\* time.sleep(value): ValueError for a negative length or NaN, OverflowError
\* for a length that does not fit the platform's time type
SleepRaises(v) ==
    IF v.t = "nan" \/ (v.t = "float" /\ v.n < 0) THEN ValueError("sleep length")
    ELSE IF v.t = "inf" THEN Exception("OverflowError")
    ELSE NoError

do_wait(Args) ==
    /\ CanRun
    /\ \E args \in Args :
      \E p \in {parse_cmd_args(ValueSchema("float", 0, 0, FloatVal(1)), args)} :
        Finish("wait", args,
               IF p.err.kind # "none" THEN Raises(p.err, <<>>, last_error)
               ELSE IF SleepRaises(p.vals[1]).kind # "none"
               THEN Raises(SleepRaises(p.vals[1]), <<>>, last_error)
               ELSE Result(<<>>, <<>>, NoneRet, last_error),
               TRUE)
    /\ UNCHANGED <<mode, host, port, unit_id, timeout, debug,
                   dump_hex, dump_32b, swap_bytes, swap_words, hx_pc, hx_arg, hx_out>>

do_version ==
    /\ CanRun
    /\ Finish("version", <<>>, Result(<<Message("mbt-cli version")>>, <<>>, NoneRet, last_error),
              FALSE)
    /\ UNCHANGED <<mode, host, port, unit_id, timeout, debug,
                   dump_hex, dump_32b, swap_bytes, swap_words, hx_pc, hx_arg, hx_out>>

\* do_exit returns True: cmdloop leaves its while loop, main's for loop over
\* the --cmd list ignores what onecmd returns
do_exit ==
    /\ CanRun
    /\ Finish("exit", <<>>, [Result(<<>>, <<>>, NoneRet, last_error) EXCEPT !.stop = TRUE], FALSE)
    /\ UNCHANGED <<mode, host, port, unit_id, timeout, debug,
                   dump_hex, dump_32b, swap_bytes, swap_words, hx_pc, hx_arg, hx_out>>

\* cmd.Cmd.emptyline, not overridden: onecmd(self.lastcmd) runs the last
\* command again, with its transport calls and its output
emptyline_lastcmd ==
    /\ CanRun
    /\ Finish("", <<>>, Result(out, calls, ret_list, last_error), FALSE)
    /\ UNCHANGED <<mode, host, port, unit_id, timeout, debug,
                   dump_hex, dump_32b, swap_bytes, swap_words, hx_pc, hx_arg, hx_out>>

\* an empty line: onecmd returns emptyline(), which MbtCmd overrides to
\* return False
emptyline ==
    /\ CanRun
    /\ Finish("", <<>>, Result(<<>>, <<>>, NoneRet, last_error), FALSE)
    /\ UNCHANGED <<mode, host, port, unit_id, timeout, debug,
                   dump_hex, dump_32b, swap_bytes, swap_words, hx_pc, hx_arg, hx_out>>

\* cmd.Cmd.default: a line whose first word names no do_ method
default(Names) ==
    /\ CanRun
    /\ \E name \in Names :
        Finish(name, <<>>, Result(<<Message("*** Unknown syntax")>>, <<>>, NoneRet, last_error),
               FALSE)
    /\ UNCHANGED <<mode, host, port, unit_id, timeout, debug,
                   dump_hex, dump_32b, swap_bytes, swap_words, hx_pc, hx_arg, hx_out>>

\* cmdloop at end of input: input() raises EOFError, the line becomes 'EOF',
\* MbtCmd has no do_EOF, so onecmd hands it to default() and returns None
end_of_input ==
    /\ mode = "interactive" /\ loop = "running" /\ inputs = 0
    /\ Finish("EOF", <<>>, Result(<<Message("*** Unknown syntax")>>, <<>>, NoneRet, last_error),
              FALSE)
    /\ UNCHANGED <<mode, host, port, unit_id, timeout, debug,
                   dump_hex, dump_32b, swap_bytes, swap_words, hx_pc, hx_arg, hx_out>>

\* main's except KeyboardInterrupt: exit(0)
interrupt ==
    /\ loop = "running"
    /\ loop' = "interrupted"
    /\ UNCHANGED <<mode, inputs, line, host, port, unit_id, timeout, debug,
                   dump_hex, dump_32b, swap_bytes, swap_words,
                   raised, calls, ret_list, last_error, out, hx_pc, hx_arg, hx_out>>

(***************************************************************************)
(* Input alphabets.                                                        *)
(***************************************************************************)
RECURSIVE SeqsUpTo(_, _)
SeqsUpTo(S, n) ==
    IF n = 0 THEN {<<>>}
    ELSE LET shorter == SeqsUpTo(S, n - 1)
         IN  shorter \cup {Append(q, x) : q \in {r \in shorter : Len(r) = n - 1}, x \in S}

\* lines of a session
SessReadArgs ==
    {<<>>, <<<<"0", "x", "1", "0">>, <<"2">>>>, <<<<"a", "b", "c">>>>,
     <<<<"0">>, <<"0">>>>, <<<<"5">>, <<"1">>, <<"7">>>>}
SessBitRets == {<<TRUE>>, <<TRUE, FALSE>>}
SessWordRets == {<<1>>, <<43707, 1>>}
SessCoilArgs ==
    {<<<<"5">>, <<"1">>>>, <<<<"5">>, <<"2">>>>, <<<<"5">>>>, <<<<"5">>, DashDash, DashDash>>}
SessRegisterArgs ==
    {<<<<"5">>, <<"0", "x", "A", "A", "B", "B">>>>, <<<<"5">>, <<"6", "5", "5", "3", "6">>>>,
     <<<<"a", "b", "c">>, <<"1">>>>, <<<<"5">>, DashDash, DashDash>>}
SessFlagArgs == {<<>>, <<<<"o", "n">>>>, <<<<"O", "F", "F">>>>, <<<<"x">>>>}
SessHostArgs == {<<>>, <<<<"p", "l", "c">>>>, <<<<"a", "_", "b">>>>}
SessPortArgs == {<<>>, <<<<"1">>>>, <<<<"0">>>>, <<<<"a", "b", "c">>>>}
SessTimeoutArgs == {<<>>, <<<<"1">>>>, <<<<"0">>>>, <<<<"n", "a", "n">>>>}
SessUnitArgs == {<<>>, <<<<"2", "5", "5">>>>, <<<<"2", "5", "6">>>>}
SessWaitArgs == {<<>>, <<<<"0">>>>, <<<<"-", "1">>>>, <<<<"i", "n", "f">>>>, <<<<"a", "b", "c">>>>}
UnknownNames == {"foo"}

(***************************************************************************)
(* Spec: a session.  main() builds MbtCmd, here with the defaults of the   *)
(* command line, and runs cmdloop() (no -c) or onecmd() over the --cmd     *)
(* list.                                                                   *)
(***************************************************************************)
NoLine == [cmd |-> "", args |-> <<>>]
Localhost == <<"l", "o", "c", "a", "l", "h", "o", "s", "t">>

Defaults ==
    /\ host = Localhost /\ port = 502 /\ unit_id = 1 /\ timeout = 5 /\ debug = FALSE
    /\ dump_hex = FALSE /\ dump_32b = FALSE /\ swap_bytes = FALSE /\ swap_words = FALSE

Fresh ==
    /\ loop = "running" /\ line = NoLine /\ raised = NoError /\ calls = <<>>
    /\ ret_list = NoneRet /\ last_error = "MB_NO_ERR" /\ out = <<>>

HexIdle == hx_pc = "idle" /\ hx_arg = <<>> /\ hx_out = <<>>

Init ==
    /\ mode \in {"interactive", "oneshot"}
    /\ inputs \in 0..MaxCmds
    /\ mode = "oneshot" => inputs >= 1
    /\ Defaults /\ Fresh /\ HexIdle

Next ==
    \/ do_debug(SessFlagArgs)
    \/ do_wait(SessWaitArgs)
    \/ do_dump_hex(SessFlagArgs)
    \/ do_dump_32b(SessFlagArgs)
    \/ do_swap_bytes(SessFlagArgs)
    \/ do_swap_words(SessFlagArgs)
    \/ do_host(SessHostArgs)
    \/ do_port(SessPortArgs)
    \/ do_timeout(SessTimeoutArgs)
    \/ do_unit_id(SessUnitArgs)
    \/ do_read_coils(SessReadArgs, SessBitRets)
    \/ do_read_discrete_inputs(SessReadArgs, SessBitRets)
    \/ do_read_holding_registers(SessReadArgs, SessWordRets)
    \/ do_read_input_registers(SessReadArgs, SessWordRets)
    \/ do_write_single_coil(SessCoilArgs)
    \/ do_write_single_register(SessRegisterArgs)
    \/ do_version
    \/ do_exit
    \/ emptyline
    \/ default(UnknownNames)
    \/ end_of_input
    \/ interrupt

Spec == Init /\ [][Next]_vars

(***************************************************************************)
(* SpecArgs: one read or write command, run as the only entry of the       *)
(* --cmd list, over every argument line of at most MaxArgs tokens.         *)
(***************************************************************************)
ArgTokens ==
    {<<"-", "1">>, <<"0">>, <<"1">>, <<"2">>, <<"1", "2", "5">>, <<"1", "2", "6">>,
     <<"2", "0", "0", "0">>, <<"2", "0", "0", "1">>, <<"0", "x", "F", "F", "F", "F">>,
     <<"6", "5", "5", "3", "6">>, <<"a", "b", "c">>, DashDash, <<"-", "x">>}
ArgLines == SeqsUpTo(ArgTokens, MaxArgs)
ArgBitRets == {<<TRUE>>}
ArgWordRets == {<<1>>}

OneShot == mode = "oneshot" /\ inputs = 1

InitArgs == OneShot /\ Defaults /\ Fresh /\ HexIdle

NextArgs ==
    \/ do_read_coils(ArgLines, ArgBitRets)
    \/ do_read_discrete_inputs(ArgLines, ArgBitRets)
    \/ do_read_holding_registers(ArgLines, ArgWordRets)
    \/ do_read_input_registers(ArgLines, ArgWordRets)
    \/ do_write_single_coil(ArgLines)
    \/ do_write_single_register(ArgLines)

SpecArgs == InitArgs /\ [][NextArgs]_vars

(***************************************************************************)
(* SpecDump: one read or write command under every setting of debug and of *)
(* the four display flags (main sets them from --debug, --dump-hex,        *)
(* --dump-32b, --swap-bytes and --swap-words), with the transport          *)
(* returning every list of at most MaxRet elements.                        *)
(***************************************************************************)
RegisterValues == {1, 255, 256, 32768, 43707, 65535}
DumpBitRets == SeqsUpTo(BOOLEAN, MaxRet)
DumpWordRets == SeqsUpTo(RegisterValues, MaxRet)
DumpReadArgs ==
    {<<>>, <<<<"7">>, <<"2">>>>, <<<<"0", "x", "1", "0">>, <<"3">>>>, <<<<"7">>, <<"0">>>>}
DumpCoilArgs == {<<<<"5">>, <<"1">>>>, <<<<"5">>, DashDash, DashDash>>}
DumpRegisterArgs ==
    {<<<<"5">>, <<"0", "x", "A", "A", "B", "B">>>>, <<<<"5">>, <<"2", "5", "5">>>>,
     <<<<"5">>, <<"6", "5", "5", "3", "5">>>>, <<<<"5">>, DashDash, DashDash>>, <<<<"5">>>>}

InitDump ==
    /\ OneShot /\ Fresh /\ HexIdle
    /\ host = Localhost /\ port = 502 /\ unit_id = 1 /\ timeout = 5
    /\ debug \in BOOLEAN
    /\ dump_hex \in BOOLEAN /\ dump_32b \in BOOLEAN
    /\ swap_bytes \in BOOLEAN /\ swap_words \in BOOLEAN

NextDump ==
    \/ do_read_coils(DumpReadArgs, DumpBitRets)
    \/ do_read_discrete_inputs(DumpReadArgs, DumpBitRets)
    \/ do_read_holding_registers(DumpReadArgs, DumpWordRets)
    \/ do_read_input_registers(DumpReadArgs, DumpWordRets)
    \/ do_write_single_coil(DumpCoilArgs)
    \/ do_write_single_register(DumpRegisterArgs)

SpecDump == InitDump /\ [][NextDump]_vars

(***************************************************************************)
(* SpecHex: _preprocess_args hands one token to replace_hex, over every    *)
(* token of at most MaxTokLen characters of HexAlphabet.                   *)
(***************************************************************************)
HexAlphabet == {"-", "0", "1", "x", "X", "a", "F", "g"}
HexTokens == SeqsUpTo(HexAlphabet, MaxTokLen)

preprocess_arg ==
    /\ hx_pc = "arg"
    /\ hx_out' = replace_hex(hx_arg)
    /\ hx_pc' = "done"
    /\ UNCHANGED <<mode, loop, inputs, line, host, port, unit_id, timeout, debug,
                   dump_hex, dump_32b, swap_bytes, swap_words,
                   raised, calls, ret_list, last_error, out, hx_arg>>

InitHex ==
    /\ OneShot /\ Defaults /\ Fresh
    /\ hx_pc = "arg" /\ hx_arg \in HexTokens /\ hx_out = <<>>

NextHex == preprocess_arg

SpecHex == InitHex /\ [][NextHex]_vars

(***************************************************************************)
(* SpecSet: one set command, run as the only entry of the --cmd list, over *)
(* every argument line of at most MaxSetArgs tokens, from the default      *)
(* settings and from settings the command line changed (-h, -p, -u, -t,    *)
(* -d and the four display options).                                       *)
(***************************************************************************)
SetTokens ==
    {<<"0">>, <<"1">>, <<"-", "1">>, <<"0", "x", "1", "0">>, <<"2", "5", "5">>, <<"2", "5", "6">>,
     <<"6", "5", "5", "3", "5">>, <<"6", "5", "5", "3", "6">>, <<"a", "b", "c">>,
     <<"o", "n">>, <<"O", "F", "F">>, <<"n", "a", "n">>, DashDash}
SetLines == SeqsUpTo(SetTokens, MaxSetArgs)

\* mbt-cli -h plc -p 1 -u 255 -t 1
OtherServer == host = <<"p", "l", "c">> /\ port = 1 /\ unit_id = 255 /\ timeout = 1

InitSet ==
    /\ OneShot /\ Fresh /\ HexIdle
    /\ \/ host = Localhost /\ port = 502 /\ unit_id = 1 /\ timeout = 5
       \/ OtherServer
    /\ debug \in BOOLEAN
    /\ dump_hex = debug /\ dump_32b = debug /\ swap_bytes = debug /\ swap_words = debug

NextSet ==
    \/ do_debug(SetLines)
    \/ do_dump_hex(SetLines)
    \/ do_dump_32b(SetLines)
    \/ do_swap_bytes(SetLines)
    \/ do_swap_words(SetLines)
    \/ do_host(SetLines)
    \/ do_port(SetLines)
    \/ do_timeout(SetLines)
    \/ do_unit_id(SetLines)

SpecSet == InitSet /\ [][NextSet]_vars

(***************************************************************************)
(* The properties.  What they read of a finished command: line (the        *)
(* command and its argument line), calls, ret_list, last_error, raised,    *)
(* out and loop.                                                           *)
(***************************************************************************)
BitReads == {"read_coils", "read_discrete_inputs"}
WordReads == {"read_holding_registers", "read_input_registers"}
ReadCommands == BitReads \cup WordReads
WriteCommands == {"write_single_coil", "write_single_register"}

\* the range declared for the j-th argument of a read or write command
DeclaredRange(cmd, j) ==
    IF j = 1 THEN [dest |-> "address", lo |-> 0, hi |-> 65535]
    ELSE IF cmd \in BitReads THEN [dest |-> "number", lo |-> 1, hi |-> 2000]
    ELSE IF cmd \in WordReads THEN [dest |-> "number", lo |-> 1, hi |-> 125]
    ELSE IF cmd = "write_single_coil" THEN [dest |-> "value", lo |-> 0, hi |-> 1]
    ELSE [dest |-> "value", lo |-> 0, hi |-> 65535]

\* the integer a token of the line stands for, hex literals included
TokenValue(tok) == py_int(replace_hex(tok))

InDeclaredRange(cmd, j, tok) ==
    /\ TokenValue(tok).ok
    /\ DeclaredRange(cmd, j).lo <= TokenValue(tok).value
    /\ TokenValue(tok).value <= DeclaredRange(cmd, j).hi

\* an argument line the commands' declarations allow: at most two tokens
\* (exactly two for a write), each an integer inside its declared range
ValidLine(cmd, args) ==
    /\ Len(args) <= 2
    /\ cmd \in WriteCommands => Len(args) = 2
    /\ \A j \in 1..Len(args) : InDeclaredRange(cmd, j, args[j])

\* C1: the transport operation is called only for a line that parsed with
\* every value inside its declared range: a line with a non-integer token,
\* an out-of-range value, a missing required argument or a surplus token
\* makes no call, and what is passed to the transport is an integer address
\* and an integer count or value.
C1_OnlyValidLinesReachTransport ==
    (line.cmd \in ReadCommands \cup WriteCommands /\ calls # <<>>) =>
        /\ ValidLine(line.cmd, line.args)
        /\ calls[1].arg.t = "int"

\* C1: reached - a write whose line is two integers in range was handed to
\* the transport.
C1_ValidWriteReached ==
    /\ line.cmd = "write_single_coil"
    /\ ValidLine(line.cmd, line.args)
    /\ Len(calls) = 1

\* C2: with two integer tokens on the line, an address of min - 1 or
\* max + 1 is rejected with the out-of-range error that carries the valid
\* range; with the address at min or max, a second value of min - 1 or
\* max + 1 is rejected the same way, and a second value at min or max is
\* accepted: both values reach the transport.
C2_RangeBoundaries ==
    (/\ line.cmd \in ReadCommands \cup WriteCommands
     /\ Len(line.args) = 2
     /\ TokenValue(line.args[1]).ok /\ TokenValue(line.args[2]).ok
     /\ swap_bytes = FALSE) =>
        LET v1 == TokenValue(line.args[1]).value
            v2 == TokenValue(line.args[2]).value
            r1 == DeclaredRange(line.cmd, 1)
            r2 == DeclaredRange(line.cmd, 2)
        IN  /\ v1 \in {r1.lo - 1, r1.hi + 1} =>
                /\ raised = ArgumentError("address", "not in valid range", r1.lo, r1.hi)
                /\ out = <<ErrLine(raised)>>
                /\ calls = <<>>
            /\ (v1 \in {r1.lo, r1.hi} /\ v2 \in {r2.lo - 1, r2.hi + 1}) =>
                /\ raised = ArgumentError(r2.dest, "not in valid range", r2.lo, r2.hi)
                /\ out = <<ErrLine(raised)>>
                /\ calls = <<>>
            /\ (v1 \in {r1.lo, r1.hi} /\ v2 \in {r2.lo, r2.hi}) =>
                /\ raised.kind # "ArgumentError"
                /\ calls = <<Request(line.cmd, v1, IntVal(v2))>>

\* C2: reached - write_single_coil 5 2 and its like: a coil value of
\* max + 1 = 2 was rejected as out of range [0-1].
C2_CoilValueTwoRejected ==
    /\ line.cmd = "write_single_coil"
    /\ Len(line.args) = 2
    /\ line.args[2] = <<"2">>
    /\ raised = ArgumentError("value", "not in valid range", 0, 1)

\* C3: for a read with validated count N and a non-empty result of length
\* L < N, the formatter prints a head line and exactly N data rows, row i
\* with index i and address start + i, and every row with index >= L shows
\* n/a in every data column.
C3_ShortResultRowsAreNA ==
    (/\ line.cmd \in ReadCommands /\ raised.kind = "none" /\ calls # <<>>
     /\ Truthy(ret_list) /\ Len(ret_list.list) < calls[1].arg.n) =>
        /\ Len(out) = calls[1].arg.n + 1
        /\ out[1].kind = "head"
        /\ \A i \in 0..(calls[1].arg.n - 1) :
            /\ out[i + 2].kind = "row"
            /\ out[i + 2].idx = i
            /\ out[i + 2].addr = calls[1].address + i
            /\ i >= Len(ret_list.list) =>
                \A c \in 1..Len(out[i + 2].cols) : out[i + 2].cols[c] = NA

\* C3: reached - a word read in 16-bit mode got fewer registers than it
\* asked for.
C3_ShortWordResultReached ==
    /\ line.cmd \in WordReads /\ raised.kind = "none" /\ calls # <<>>
    /\ ~dump_32b
    /\ Truthy(ret_list) /\ Len(ret_list.list) < calls[1].arg.n

\* the transport calls the command of the last line makes when the display
\* flags are f, everything else as it was
CallsWith(f) ==
    IF line.cmd \in ReadCommands
    THEN LET p == parse_cmd_args(ReadSchema(DeclaredRange(line.cmd, 2).hi), line.args)
         IN  IF p.err.kind # "none" THEN <<>>
             ELSE ReadRequest(line.cmd, p.vals[1].n, p.vals[2].n, f)
    ELSE LET p == parse_cmd_args(WriteSchema(DeclaredRange(line.cmd, 2).hi), line.args)
         IN  IF p.err.kind # "none" THEN <<>>
             ELSE IF line.cmd = "write_single_coil"
             THEN <<Request(line.cmd, p.vals[1].n, p.vals[2])>>
             ELSE WriteRegisterRequest(p.vals[1].n, p.vals[2], f)

C5_RejectedCommandKeepsSession ==
    (raised.kind \in {"ArgumentError", "ValueError"} /\ loop # "interrupted") =>
        /\ out = <<ErrLine(raised)>>
        /\ loop \in {"running", "stopped"}
        /\ inputs > 0 => CanRun
        /\ mode = "interactive" => loop = "running"
        /\ loop = "stopped" => (mode = "oneshot" /\ inputs = 0)

\* C5: reached - a setter rejected its value with a value error while
\* input was left, and the loop is running.
C5_RejectedSetterReached ==
    /\ line.cmd = "timeout"
    /\ raised.kind = "ValueError"
    /\ inputs > 0
    /\ loop = "running"

\* C6: in interactive mode the loop ends at the exit command and at end of
\* input - once exit was entered the loop has stopped, and once the input
\* stream reached end-of-input the loop is no longer running.
C6_LoopEndsAtExitOrEndOfInput ==
    mode = "interactive" =>
        /\ line.cmd = "exit" => loop = "stopped"
        /\ line.cmd = "EOF" => loop # "running"

\* C6: reached - exit was entered in interactive mode and the loop stopped.
C6_ExitStopsLoopReached ==
    mode = "interactive" /\ line.cmd = "exit" /\ loop = "stopped"

\* C7: a token that matches the hex-literal pattern is replaced by a string
\* that int() parses back to the literal's signed value (-0x10 gives -16,
\* 0x10 gives 16); any other token, a bare 0x included, is left unchanged.
C7_HexRoundTrip ==
    hx_pc = "done" =>
        /\ IF MatchesHexLiteral(hx_arg)
           THEN py_int(hx_out) = [ok |-> TRUE, value |-> IntBase16(hx_arg)]
           ELSE hx_out = hx_arg
        /\ hx_arg = <<"-", "0", "x", "1", "0">> => hx_out = <<"-", "1", "6">>
        /\ hx_arg = <<"0", "x", "1", "0">> => hx_out = <<"1", "6">>
        /\ hx_arg = <<"0", "x">> => hx_out = <<"0", "x">>
        /\ hx_arg = <<"0", "x", "g">> => hx_out = hx_arg

\* C7: reached - a negative hex literal with a letter digit was replaced.
C7_NegativeHexReplaced ==
    /\ hx_pc = "done"
    /\ hx_arg = <<"-", "0", "X", "F", "a">>
    /\ hx_out = <<"-", "2", "5", "0">>

\* ((v & 0xff) << 8) | (v >> 8) of a 16-bit value
ByteSwapped(v) == (v % 256) * 256 + (v \div 256)

\* the 16-bit value the claims derive everything from: the register,
\* byte-swapped when the byte-swap flag is set
Derived(v) == IF swap_bytes THEN ByteSwapped(v) ELSE v

\* a word read that printed its table
WordTable ==
    /\ line.cmd \in WordReads /\ raised.kind = "none" /\ calls # <<>>
    /\ Truthy(ret_list)

\* C8: in 32-bit rendering, for every row i whose following register
\* exists, the u32 column is (A << 16) + B with word-swap off and
\* (B << 16) + A with it on, A and B the registers i and i + 1, each
\* byte-swapped first when the byte-swap flag is set.
C8_WordOrder ==
    (WordTable /\ dump_32b) =>
        \A i \in 0..(calls[1].arg.n - 1) :
            i + 1 < Len(ret_list.list) =>
                LET A == Derived(ret_list.list[i + 1])
                    B == Derived(ret_list.list[i + 2])
                IN  /\ out[i + 2].cols[2].txt = "u32"
                    /\ out[i + 2].cols[2].w =
                          IF swap_words THEN [hi |-> B, lo |-> A] ELSE [hi |-> A, lo |-> B]

\* C8: reached - registers 0xAABB, 0x0001 rendered with word-swap and
\* byte-swap on: row 0 shows (0x0100 << 16) + 0xBBAA.
C8_SwappedWordsReached ==
    /\ WordTable /\ dump_32b /\ swap_words /\ swap_bytes
    /\ ret_list.list = <<43707, 1>>
    /\ out[2].cols[2].w = [hi |-> 256, lo |-> 48042]

\* C9: with the byte-swap flag set a 16-bit value v is replaced by
\* ((v & 0xff) << 8) | (v >> 8) before anything is derived from it, and
\* with the flag clear it is used as it is: the u16, i16 and ascii columns
\* and the halves of the u32 column of a read come from that value, and
\* write_single_register transmits it.
C9_ByteSwapBeforeDerived ==
    /\ WordTable =>
        \A i \in 0..(calls[1].arg.n - 1) :
            i < Len(ret_list.list) =>
                LET v == Derived(ret_list.list[i + 1])
                    cols == out[i + 2].cols
                IN  IF dump_32b
                    THEN i + 1 < Len(ret_list.list) =>
                            {cols[2].w.hi, cols[2].w.lo}
                                = {v, Derived(ret_list.list[i + 2])}
                    ELSE /\ cols[2].mag = v
                         /\ cols[3].mag = (IF v >= 32768 THEN 65536 - v ELSE v)
                         /\ cols[3].sign = (IF v >= 32768 THEN "-" ELSE "")
                         /\ cols[4] = [txt |-> "bytes", b1 |-> v \div 256, b2 |-> v % 256]
    /\ (/\ line.cmd = "write_single_register" /\ raised.kind = "none" /\ calls # <<>>
        /\ Len(line.args) = 2) =>
            calls[1].arg = IntVal(Derived(TokenValue(line.args[2]).value))

\* C9: reached - 0xAABB was written with byte-swap on and went out as
\* 0xBBAA.
C9_SwappedWriteReached ==
    /\ line.cmd = "write_single_register" /\ swap_bytes
    /\ line.args = <<<<"5">>, <<"0", "x", "A", "A", "B", "B">>>>
    /\ calls # <<>> /\ calls[1].arg = IntVal(48042)

\* C10: when the result of a read is empty or None no table is printed:
\* with debug off the one line printed is the client's last error (with the
\* exception text when the last error is a Modbus exception), with debug on
\* nothing is printed.
C10_EmptyResult ==
    (/\ line.cmd \in ReadCommands /\ raised.kind = "none" /\ calls # <<>>
     /\ (ret_list.none \/ ret_list.list = <<>>)) =>
        /\ \A k \in 1..Len(out) : out[k].kind \notin {"head", "row"}
        /\ ~debug => out = <<[kind |-> "last_error", error |-> last_error,
                              except |-> (last_error = "MB_EXCEPT_ERR")]>>
        /\ debug => out = <<>>

\* C10: reached - a read came back with None after a Modbus exception while
\* debug was on, and nothing was printed.
C10_SilentUnderDebugReached ==
    /\ line.cmd \in ReadCommands /\ calls # <<>>
    /\ ret_list.none /\ last_error = "MB_EXCEPT_ERR"
    /\ debug /\ out = <<>>

\* the nine settings: mb_client's host, port, unit_id, timeout and debug,
\* and MbtCmd's dump_hex, dump_32b, swap_bytes and swap_words
Settings == <<ConfigVars, DisplayVars>>

\* a step that handed a line to onecmd(): the line is taken off the input
EmptyLineStep == inputs' = inputs - 1 /\ line'.cmd = ""

\* C11: an empty input line is a no-op whatever was executed before it: the
\* step that takes it makes no transport call, prints nothing, raises
\* nothing, leaves the client's last error and all nine settings as they
\* were, and does not stop an interactive loop; the previous command's
\* calls and output are not repeated.
C11_EmptyLineIsNoOp ==
    [][EmptyLineStep =>
        /\ calls' = <<>> /\ out' = <<>> /\ ret_list' = NoneRet
        /\ raised' = NoError
        /\ last_error' = last_error
        /\ UNCHANGED Settings
        /\ mode = "interactive" => loop' = "running"]_vars

\* C11: reached - an empty line was taken after a read whose transport call
\* had failed: the read's error is still the client's last error, and the
\* empty line made no call and printed nothing.
C11_EmptyLineAfterReadReached ==
    /\ line.cmd = "" /\ inputs < MaxCmds
    /\ last_error = "MB_TIMEOUT_ERR"
    /\ calls = <<>> /\ out = <<>>

SetCommands ==
    {"host", "port", "unit_id", "timeout", "debug",
     "dump_hex", "dump_32b", "swap_bytes", "swap_words"}

\* C12: a setting changes only in a step that runs its own set command - the
\* four reads, the two writes, wait, version, exit, the empty line (and an
\* unknown command) leave host, port, unit_id, timeout, debug, dump_hex,
\* dump_32b, swap_bytes and swap_words as they were, and a set command
\* leaves the eight settings that are not its own as they were.
C12_OnlyOwnSetterChangesSetting ==
    [][/\ line'.cmd \notin SetCommands => UNCHANGED Settings
       /\ host' # host => line'.cmd = "host"
       /\ port' # port => line'.cmd = "port"
       /\ unit_id' # unit_id => line'.cmd = "unit_id"
       /\ timeout' # timeout => line'.cmd = "timeout"
       /\ debug' # debug => line'.cmd = "debug"
       /\ dump_hex' # dump_hex => line'.cmd = "dump_hex"
       /\ dump_32b' # dump_32b => line'.cmd = "dump_32b"
       /\ swap_bytes' # swap_bytes => line'.cmd = "swap_bytes"
       /\ swap_words' # swap_words => line'.cmd = "swap_words"]_vars

\* C12: reached - a write went to the transport in a session whose unit id
\* had been set to 255 before: that setting is still in place, the other
\* eight are the defaults.
C12_WriteAfterSetterReached ==
    /\ line.cmd = "write_single_register" /\ calls # <<>>
    /\ unit_id = 255
    /\ host = Localhost /\ port = 502 /\ timeout = 5 /\ ~debug
    /\ ~dump_hex /\ ~dump_32b /\ ~swap_bytes /\ ~swap_words

\* C13: in 32-bit rendering, every row i whose following register i + 1 is
\* absent from the result shows n/a in the u32, i32 and f32 columns, and its
\* raw column still shows register i in hex when register i is present (n/a
\* when it is not); the last row of a full-length result is such a row.
C13_Absent32FieldsAreNA ==
    (WordTable /\ dump_32b) =>
        \A i \in 0..(calls[1].arg.n - 1) :
            i + 1 >= Len(ret_list.list) =>
                LET cols == out[i + 2].cols
                IN  /\ Len(cols) = 4
                    /\ cols[2] = NA /\ cols[3] = NA /\ cols[4] = NA
                    /\ cols[1] = IF i < Len(ret_list.list)
                                 THEN Num("", "0x", "04x", ret_list.list[i + 1])
                                 ELSE NA

\* C13: reached - two registers were asked for and two came back, in 32-bit
\* rendering with byte-swap on: the last row shows its raw register 0xAABB
\* and n/a in the three 32-bit columns.
C13_LastRowOfFullResultReached ==
    /\ WordTable /\ dump_32b /\ swap_bytes
    /\ calls[1].arg.n = 2 /\ ret_list.list = <<1, 43707>>
    /\ out[3].cols = <<Num("", "0x", "04x", 43707), NA, NA, NA>>

IntSetCommands == {"port", "unit_id"}
FlagSetCommands == {"debug", "dump_hex", "dump_32b", "swap_bytes", "swap_words"}

\* the values a set command with an integer argument accepts
SettingRange(cmd) == IF cmd = "port" THEN 1..65535 ELSE 1..255

\* an argument the set command is to reject: for port and unit_id one token
\* that is not an integer or is outside the setting's range, for the five
\* flags anything but on or off in any case
RejectedArgument(cmd, args) ==
    IF cmd \in IntSetCommands
    THEN /\ Len(args) = 1 /\ args[1] # DashDash
         /\ ~(TokenValue(args[1]).ok /\ TokenValue(args[1]).value \in SettingRange(cmd))
    ELSE /\ cmd \in FlagSetCommands
         /\ args # <<>>
         /\ ~(Len(args) = 1 /\ LowerTok(args[1]) \in {<<"o", "n">>, <<"o", "f", "f">>})

C15_EveryListedCommandRuns ==
    [][(mode = "oneshot" /\ inputs' # inputs) =>
        /\ inputs' = inputs - 1
        /\ mode' = "oneshot"
        /\ inputs' > 0 => loop' = "running"
        /\ inputs' = 0 => loop' # "running"]_vars

\* C15: reached - exit was executed inside the --cmd list with an entry left
\* after it, and the list goes on.
C15_ExitInsideListReached ==
    /\ mode = "oneshot" /\ line.cmd = "exit"
    /\ inputs > 0 /\ loop = "running"

====
